---- MODULE Spec2Model ----
(***************************************************************************)
(* A model of go-updater (src/main.go): the version normalizer and the     *)
(* `go version` parser as operators over character sequences, the user-    *)
(* and system-level PATH writers as operators over a small file system,    *)
(* and main() as a step machine over repeated runs of the installer.       *)
(*                                                                         *)
(* A string is a sequence of one-character strings: "go1" is               *)
(* <<"g","o","1">>.                                                        *)
(***************************************************************************)
EXTENDS Naturals, Sequences, FiniteSets, TLC

VARIABLES
    \* -- the pure functions' bench
    input,      \* the text handed to cleanVersionInput / parseGoVersionOutput
    outs,       \* successive results of cleanVersionInput: <<f(x)>>, <<f(x), f(f(x))>>
    parsed,     \* results of parseGoVersionOutput(input): at most one record
    \* -- the machine the installer runs on
    goos,       \* runtime.GOOS
    goarch,     \* runtime.GOARCH
    priv,       \* "root" (euid 0), "sudo" (sudo on PATH) or "nosudo"
    homeOk,     \* os.UserHomeDir() succeeds
    \* -- the file system
    home,       \* the candidate profile files under the home directory
    sys,        \* system-wide configuration and the staging files left in the temp dir
    dl,         \* the download directories and the archives in them
    inst,       \* version of the Go tree at /usr/local/go (<<>>: none)
    pathGo,     \* version of another go binary found on PATH (<<>>: none)
    \* -- one run of main()
    pc,         \* position in main()
    flags,      \* the parsed command line
    version,    \* the target version
    result,     \* how the run ended ("" while it runs)
    net,        \* the network requests made by this run
    fs0,        \* the file system as it was when this run started
    run,        \* number of runs started
    \* -- call histories of the PATH writers
    profHist,   \* one record per ensureUserPath call
    sysHist     \* one record per ensureSystemPath call

pureVars == <<input, outs, parsed>>
envVars == <<goos, goarch, priv, homeOk>>
fsVars == <<home, sys, dl, inst, pathGo>>
runVars == <<pc, flags, version, result, net, fs0, run>>
histVars == <<profHist, sysHist>>
vars == <<pureVars, envVars, fsVars, runVars, histVars>>

(***************************************************************************)
(* Bounds of the model.                                                    *)
(***************************************************************************)
MaxLen == 4          \* longest free-form input string
MaxFields == 3       \* most whitespace-separated fields of a generated text

(***************************************************************************)
(* Character classes (unicode.IsSpace and the byte ranges of line 423).    *)
(***************************************************************************)
Space == {" ", "\t", "\n", "\r"}
Digits == {"0", "1", "2", "3", "4", "5", "6", "7", "8", "9"}
Lower == {"a", "b", "c", "d", "e", "f", "g", "h", "i", "j", "k", "l", "m",
          "n", "o", "p", "q", "r", "s", "t", "u", "v", "w", "x", "y", "z"}
Allowed == Digits \cup Lower \cup {"."}

GoPrefix == <<"g", "o">>

\* strings.HasPrefix
HasPrefix(s, p) == Len(s) >= Len(p) /\ SubSeq(s, 1, Len(p)) = p

RECURSIVE TrimLeft(_)
TrimLeft(s) ==
    IF s = <<>> THEN <<>>
    ELSE IF Head(s) \in Space THEN TrimLeft(Tail(s)) ELSE s

RECURSIVE TrimRight(_)
TrimRight(s) ==
    IF s = <<>> THEN <<>>
    ELSE IF s[Len(s)] \in Space THEN TrimRight(SubSeq(s, 1, Len(s) - 1)) ELSE s

\* strings.TrimSpace
TrimSpace(s) == TrimRight(TrimLeft(s))

RECURSIVE FieldsFrom(_, _, _)
FieldsFrom(s, cur, acc) ==
    IF s = <<>>
    THEN IF cur = <<>> THEN acc ELSE Append(acc, cur)
    ELSE IF Head(s) \in Space
         THEN FieldsFrom(Tail(s), <<>>, IF cur = <<>> THEN acc ELSE Append(acc, cur))
         ELSE FieldsFrom(Tail(s), Append(cur, Head(s)), acc)

\* strings.Fields
Fields(s) == FieldsFrom(s, <<>>, <<>>)

\* The loop of lines 417-428 past the first two bytes: keep allowed bytes,
\* stop at the first one that is not.
RECURSIVE ScanAllowed(_)
ScanAllowed(rest) ==
    IF rest = <<>> \/ Head(rest) \notin Allowed
    THEN <<>>
    ELSE <<Head(rest)>> \o ScanAllowed(Tail(rest))

\* Mutant: the prefix is prepended without looking for one already there.
cleanVersionInputAlwaysPrefix(versionInput) ==
    LET trimmed == TrimSpace(versionInput)
        fields == Fields(trimmed)
        prefixed == GoPrefix \o fields[1]
    IN IF trimmed = <<>> THEN trimmed
       ELSE SubSeq(prefixed, 1, 2) \o ScanAllowed(SubSeq(prefixed, 3, Len(prefixed)))

\* Mutant: the scan keeps a third byte unconditionally (idx < 3).
cleanVersionInputKeepThree(versionInput) ==
    LET trimmed == TrimSpace(versionInput)
        fields == Fields(trimmed)
        first == IF Len(fields) > 0 THEN fields[1] ELSE trimmed
        prefixed == IF HasPrefix(first, GoPrefix) THEN first ELSE GoPrefix \o first
    IN IF trimmed = <<>> THEN trimmed
       ELSE SubSeq(prefixed, 1, 3) \o ScanAllowed(SubSeq(prefixed, 4, Len(prefixed)))

cleanVersionInput(versionInput) ==
    LET trimmed == TrimSpace(versionInput)
        fields == Fields(trimmed)
        first == IF Len(fields) > 0 THEN fields[1] ELSE trimmed
        prefixed == IF HasPrefix(first, GoPrefix) THEN first ELSE GoPrefix \o first
    IN IF trimmed = <<>> THEN trimmed
       ELSE SubSeq(prefixed, 1, 2) \o ScanAllowed(SubSeq(prefixed, 3, Len(prefixed)))

\* The fallback loop of lines 467-474: the first token that begins with
\* "go" and whose cleaned form is longer than the prefix.
RECURSIVE ScanTokens(_)
ScanTokens(fields) ==
    IF fields = <<>> THEN [ok |-> FALSE, v |-> <<>>]
    ELSE LET token == Head(fields)
             versionToken == cleanVersionInput(token)
         IN IF HasPrefix(token, GoPrefix)
               /\ HasPrefix(versionToken, GoPrefix) /\ Len(versionToken) > 2
            THEN [ok |-> TRUE, v |-> versionToken]
            ELSE ScanTokens(Tail(fields))

parseGoVersionOutput(output) ==
    LET fields == Fields(TrimSpace(output))
    IN IF Len(fields) >= 3 /\ HasPrefix(fields[3], GoPrefix)
       THEN [ok |-> TRUE, v |-> cleanVersionInput(fields[3])]
       ELSE ScanTokens(fields)

(***************************************************************************)
(* Shell files.  The content of a file is a sequence of tokens, each       *)
(* standing for the run of bytes it spells; NL is the newline byte.  A     *)
(* substring test is a test for a contiguous run of tokens.                *)
(***************************************************************************)
NL == "\n"
GoBin == "/usr/local/go/bin"
ExportPath == <<"export", " ", "PATH">>

\* line 190: "export PATH=$PATH:/usr/local/go/bin"
ProfileLine == ExportPath \o <<"=", "$", "PATH", ":", GoBin>>

\* strings.Contains
Contains(s, sub) ==
    \E i \in 1..(Len(s) + 1) :
        i + Len(sub) - 1 <= Len(s) /\ SubSeq(s, i, i + Len(sub) - 1) = sub

RECURSIVE SplitFrom(_, _, _)
SplitFrom(s, cur, acc) ==
    IF s = <<>> THEN Append(acc, cur)
    ELSE IF Head(s) = NL
         THEN SplitFrom(Tail(s), <<>>, Append(acc, cur))
         ELSE SplitFrom(Tail(s), Append(cur, Head(s)), acc)

\* strings.SplitSeq(content, "\n")
SplitLines(content) == SplitFrom(content, <<>>, <<>>)

containsProfileLine(content, target) ==
    LET lines == SplitLines(content)
    IN \E i \in 1..Len(lines) :
          LET line == TrimSpace(lines[i])
          IN \/ line = target
             \/ Contains(line, <<GoBin>>) /\ Contains(line, ExportPath)

\* A file: absent, or present with permission bits and a content.
Absent == [exists |-> FALSE, readable |-> FALSE, writable |-> FALSE, content |-> <<>>]

\* os.ReadFile / os.OpenFile succeed for root whatever the mode bits say.
CanRead(f, pr) == f.exists /\ (f.readable \/ pr = "root")
CanAppend(f, pr) == f.exists /\ (f.writable \/ pr = "root")

\* lines 193-197
Candidates(os) ==
    IF os = "darwin"
    THEN <<".zprofile", ".zshrc", ".bash_profile", ".profile">>
    ELSE <<".profile">>

CandidateNames == {".zprofile", ".zshrc", ".bash_profile", ".profile"}

\* The three Fprintln of lines 220-222 and 239-241.
ProfileBlock ==
    <<NL, "# Added by go-updater to expose Go binaries", NL>> \o ProfileLine \o <<NL>>

\* ensureUserPath: the files after the call, whether it returned an error
\* and whether it wrote.  flushOk is the outcome of writer.Flush().
ensureUserPath(os, files, pr, hOk, flushOk) ==
    LET cands == Candidates(os)
        satisfied == \E i \in 1..Len(cands) :
                        /\ CanRead(files[cands[i]], pr)
                        /\ containsProfileLine(files[cands[i]].content, ProfileLine)
        existing == {i \in 1..Len(cands) : files[cands[i]].exists}
        firstIdx == CHOOSE i \in existing : \A j \in existing : i <= j
        target == IF existing # {} THEN cands[firstIdx] ELSE cands[1]
        created == [exists |-> TRUE, readable |-> TRUE, writable |-> TRUE,
                    content |-> IF flushOk THEN ProfileBlock ELSE <<>>]
    IN IF ~hOk THEN [err |-> TRUE, files |-> files, wrote |-> FALSE]
       ELSE IF satisfied THEN [err |-> FALSE, files |-> files, wrote |-> FALSE]
       ELSE IF existing # {}
       THEN IF ~CanAppend(files[target], pr) \/ ~flushOk
            THEN [err |-> TRUE, files |-> files, wrote |-> FALSE]
            ELSE [err |-> FALSE,
                  files |-> [files EXCEPT ![target].content = @ \o ProfileBlock],
                  wrote |-> TRUE]
       ELSE [err |-> ~flushOk,
             files |-> [files EXCEPT ![target] = created],
             wrote |-> TRUE]

(***************************************************************************)
(* runAsRoot and ensureSystemPath.                                         *)
(***************************************************************************)
\* runAsRoot: TRUE when it returns nil.  cmdOk is the command's own exit
\* status (under sudo, also that of sudo).
runAsRoot(pr, cmdOk) ==
    IF pr = "root" THEN cmdOk
    ELSE IF pr = "nosudo" THEN FALSE
    ELSE cmdOk

SysExport == ExportPath \o <<"=", "\"", "$", "PATH", ":", GoBin, "\"", NL>>

\* line 299 and line 267: what is staged for the drop-in file
StagedContent(os) ==
    IF os = "darwin" THEN <<GoBin, NL>>
    ELSE <<"#", " ", "/etc/profile.d/golang-path.sh", NL,
           "#", " ", "Added by go-updater", NL>> \o SysExport

\* lines 288 and 320: the text handed to printf for the fallback
FallbackText(os) == IF os = "darwin" THEN SysExport ELSE StagedContent(os)

\* strings.ReplaceAll(s, "'", "'\\''")
RECURSIVE EscapeQuotes(_)
EscapeQuotes(s) ==
    IF s = <<>> THEN <<>>
    ELSE IF Head(s) = "'"
         THEN <<"'", "\\", "'", "'">> \o EscapeQuotes(Tail(s))
         ELSE <<Head(s)>> \o EscapeQuotes(Tail(s))

\* What sh makes of the word '<s>': quoted runs are taken literally, and
\* between them \' stands for a quote.
RECURSIVE ShellWord(_, _)
ShellWord(s, quoted) ==
    IF s = <<>> THEN <<>>
    ELSE IF quoted
         THEN IF Head(s) = "'" THEN ShellWord(Tail(s), FALSE)
              ELSE <<Head(s)>> \o ShellWord(Tail(s), TRUE)
         ELSE IF Head(s) = "'" THEN ShellWord(Tail(s), TRUE)
              ELSE IF Head(s) = "\\" /\ Len(s) >= 2
                   THEN <<s[2]>> \o ShellWord(Tail(Tail(s)), FALSE)
                   ELSE <<Head(s)>> \o ShellWord(Tail(s), FALSE)

\* sh -c "printf '<escaped text>' >> file": the bytes appended.
Appended(os) == ShellWord(EscapeQuotes(FallbackText(os)) \o <<"'">>, TRUE)

\* ensureSystemPath: sys after the call, whether it returned an error, and
\* whether a staging file was created and is left behind.
\*   createOk   os.CreateTemp succeeds
\*   writeOk    tmp.WriteString succeeds
\*   installOk  the install command itself would succeed
\*   appendOk   the sh -c append itself would succeed
ensureSystemPath(os, s, pr, createOk, writeOk, installOk, appendOk) ==
    LET installed == runAsRoot(pr, installOk /\ s.dropInDir)
        appended == runAsRoot(pr, appendOk)
    IN IF ~createOk
       THEN [err |-> TRUE, sys |-> s, created |-> FALSE, left |-> FALSE]
       ELSE IF ~writeOk
       THEN [err |-> TRUE, sys |-> [s EXCEPT !.staging = @ + 1],
             created |-> TRUE, left |-> TRUE]
       ELSE IF installed
       THEN [err |-> FALSE,
             sys |-> [s EXCEPT !.dropIn = [exists |-> TRUE, content |-> StagedContent(os)]],
             created |-> TRUE, left |-> FALSE]
       ELSE IF ~appended
       THEN [err |-> TRUE, sys |-> s, created |-> TRUE, left |-> FALSE]
       ELSE [err |-> FALSE,
             sys |-> [s EXCEPT !.global = @ \o Appended(os)],
             created |-> TRUE, left |-> FALSE]

(***************************************************************************)
(* The helpers of main().                                                  *)
(***************************************************************************)
StatusOK == 200

\* reader.ReadString('\n'): the bytes up to and with the first newline
RECURSIVE ReadLine(_)
ReadLine(body) ==
    IF body = <<>> THEN <<>>
    ELSE IF Head(body) = NL THEN <<NL>>
    ELSE <<Head(body)>> \o ReadLine(Tail(body))

\* fetchLatestVersion, given what the GET of go.dev/VERSION?m=text brought
fetchLatestVersion(resp) ==
    LET ver == TrimSpace(ReadLine(resp.body))
    IN IF resp.fail \/ resp.status # StatusOK THEN [err |-> TRUE, v |-> <<>>]
       ELSE IF ver = <<>> \/ ~HasPrefix(ver, GoPrefix) THEN [err |-> TRUE, v |-> <<>>]
       ELSE [err |-> FALSE, v |-> ver]

resolveTarget(os, arch) ==
    IF os \notin {"linux", "darwin"} THEN [err |-> TRUE, goos |-> "", goarch |-> ""]
    ELSE IF arch \in {"amd64", "arm64", "386"} THEN [err |-> FALSE, goos |-> os, goarch |-> arch]
    ELSE IF arch = "x86_64" THEN [err |-> FALSE, goos |-> os, goarch |-> "amd64"]
    ELSE IF arch = "aarch64" THEN [err |-> FALSE, goos |-> os, goarch |-> "arm64"]
    ELSE [err |-> TRUE, goos |-> "", goarch |-> ""]

\* What `go version` of a tree of version v prints.
GoVersionOutput(v) ==
    <<"g", "o", " ", "v", "e", "r", "s", "i", "o", "n", " ">> \o v
        \o <<" ", "l", "i", "n", "u", "x", "/", "a", "m", "d", "6", "4", NL>>

\* getInstalledGoVersion: /usr/local/go/bin/go first, then the go on PATH
getInstalledGoVersion(instV, pathV) ==
    LET std == parseGoVersionOutput(GoVersionOutput(instV))
        other == parseGoVersionOutput(GoVersionOutput(pathV))
    IN IF instV # <<>> /\ std.ok THEN [err |-> FALSE, v |-> std.v]
       ELSE IF pathV # <<>> /\ other.ok THEN [err |-> FALSE, v |-> other.v]
       ELSE [err |-> TRUE, v |-> <<>>]

\* os.Stat(tarPath) succeeds: some file is at the destination path
ArchiveAt(d, key) == key \in d.complete \/ key \in d.partial

DownloadOutcomes ==
    {"create failed", "request failed", "bad status", "copy interrupted", "ok"}

\* downloadFile(url, toPath): os.Create comes first, so every outcome past
\* it leaves a file at toPath; only a full copy leaves the archive.
downloadFile(d, key, outcome) ==
    IF outcome = "create failed" THEN [err |-> TRUE, dl |-> d]
    ELSE IF outcome = "ok"
    THEN [err |-> FALSE, dl |-> [d EXCEPT !.complete = @ \cup {key}]]
    ELSE [err |-> TRUE, dl |-> [d EXCEPT !.partial = @ \cup {key}]]

(***************************************************************************)
(* Inputs of the pure functions: every string over Alphabet up to MaxLen,  *)
(* and texts of up to MaxFields tokens joined by single spaces.            *)
(***************************************************************************)
Alphabet == {"g", "o", "1", ".", "A", "!", " "}

RECURSIVE StringsUpTo(_)
StringsUpTo(n) ==
    IF n = 0 THEN {<<>>}
    ELSE LET shorter == StringsUpTo(n - 1)
         IN shorter \cup {Append(s, c) : s \in shorter, c \in Alphabet}

Tokens == {<<"g", "o">>, <<"g", "o", "1">>, <<"g", "o", "!">>,
           <<"g", "o", "A", "1">>, <<"x">>, <<"1", ".", "2">>}

RECURSIVE Join(_)
Join(fields) ==
    IF fields = <<>> THEN <<>>
    ELSE IF Len(fields) = 1 THEN fields[1]
    ELSE fields[1] \o <<" ">> \o Join(Tail(fields))

Texts == UNION {{Join(fs) : fs \in [1..k -> Tokens]} : k \in 1..MaxFields}

PureInputs == StringsUpTo(MaxLen) \cup Texts

(***************************************************************************)
(* The parts of the state a specification does not exercise rest at these  *)
(* values.                                                                 *)
(***************************************************************************)
NoFiles == [n \in CandidateNames |-> Absent]
NoSys == [dropInDir |-> TRUE, dropIn |-> [exists |-> FALSE, content |-> <<>>],
          global |-> <<>>, staging |-> 0]
NoDl == [custom |-> FALSE, complete |-> {}, partial |-> {}]
NoFlags == [version |-> <<>>, dryRun |-> FALSE, noPathUpdate |-> FALSE,
            system |-> FALSE, downloadDir |-> ""]

IdlePure == input = <<>> /\ outs = <<>> /\ parsed = <<>>
IdleEnv == goos = "linux" /\ goarch = "amd64" /\ priv = "sudo" /\ homeOk = TRUE
IdleFs == home = NoFiles /\ sys = NoSys /\ dl = NoDl /\ inst = <<>> /\ pathGo = <<>>
IdleRun ==
    /\ pc = "idle" /\ flags = NoFlags /\ version = <<>> /\ result = ""
    /\ net = <<>> /\ fs0 = <<>> /\ run = 0
IdleHist == profHist = <<>> /\ sysHist = <<>>
IdleMachine == IdleEnv /\ IdleFs /\ IdleRun /\ IdleHist

InitPure ==
    /\ input \in PureInputs
    /\ outs = <<>>
    /\ parsed = <<>>
    /\ IdleMachine

\* version = cleanVersionInput(*versionFlag)
Clean ==
    /\ outs = <<>>
    /\ outs' = <<cleanVersionInput(input)>>
    /\ UNCHANGED <<input, parsed, envVars, fsVars, runVars, histVars>>

\* the function applied to its own result
CleanAgain ==
    /\ Len(outs) = 1
    /\ outs' = Append(outs, cleanVersionInput(outs[1]))
    /\ UNCHANGED <<input, parsed, envVars, fsVars, runVars, histVars>>

\* v, perr := parseGoVersionOutput(string(out))
Parse ==
    /\ parsed = <<>>
    /\ parsed' = <<parseGoVersionOutput(input)>>
    /\ UNCHANGED <<input, outs, envVars, fsVars, runVars, histVars>>

NextPure == Clean \/ CleanAgain \/ Parse

SpecPure == InitPure /\ [][NextPure]_vars

(***************************************************************************)
(* Claims about the pure functions, checked under SpecPure.                *)
(***************************************************************************)
\* A version token as the data model describes it: the prefix "go", then
\* only digits, lowercase letters and dots.
WellFormedToken(v) ==
    /\ Len(v) >= 2
    /\ v[1] = "g" /\ v[2] = "o"
    /\ \A i \in 3..Len(v) : v[i] \in Allowed

Blank(s) == \A i \in 1..Len(s) : s[i] \in Space

\* C5 (as stated): for every input, the result of cleanVersionInput begins
\* with "go" and holds only digits, lowercase letters and "." after it.
C5_AlwaysWellFormed == outs # <<>> => WellFormedToken(outs[1])

\* C5 (amended): for every input that is not empty or whitespace-only the
\* result of cleanVersionInput begins with "go" and holds only digits,
\* lowercase letters and "." after it; for an empty or whitespace-only
\* input the result is the empty string.
C5_WellFormedUnlessBlank ==
    outs # <<>> =>
        IF Blank(input) THEN outs[1] = <<>> ELSE WellFormedToken(outs[1])

\* C5 witness: an input without the prefix, cut at a disallowed character.
C5_Witness ==
    /\ outs # <<>>
    /\ input = <<"1", ".", "!", "g">>
    /\ outs[1] = <<"g", "o", "1", ".">>

\* C6: cleanVersionInput is idempotent: applied to its own result it
\* returns that result.
C6_Idempotent == Len(outs) = 2 => outs[2] = outs[1]

\* C6 witness: a multi-field input without the prefix, truncated at a
\* disallowed character, normalized twice.
C6_Witness ==
    /\ Len(outs) = 2
    /\ input = <<"1", "!", " ", "g">>
    /\ outs[1] = <<"g", "o", "1">>
    /\ outs[2] = outs[1]

\* A field the parser may select: it begins with "go" and its normalized
\* form is more than the bare prefix.
VersionField(f) == HasPrefix(f, GoPrefix) /\ Len(cleanVersionInput(f)) > 2

\* C7: parse selects the third field, or when that is absent or malformed
\* the first field that begins with "go"; the result is the selected field
\* normalized; it fails exactly when no field can be selected, so a
\* successful parse always yields a version.
C7_ParseRule ==
    parsed # <<>> =>
        LET fields == Fields(input)
            third == Len(fields) >= 3 /\ VersionField(fields[3])
            hits == {i \in 1..Len(fields) : VersionField(fields[i])}
            first == CHOOSE i \in hits : \A j \in hits : i <= j
        IN IF third
           THEN parsed[1] = [ok |-> TRUE, v |-> cleanVersionInput(fields[3])]
           ELSE IF hits # {}
           THEN parsed[1] = [ok |-> TRUE, v |-> cleanVersionInput(fields[first])]
           ELSE ~parsed[1].ok

(***************************************************************************)
(* SpecProfile: repeated calls of ensureUserPath on one set of files.      *)
(***************************************************************************)
MaxCalls == 2        \* most calls of a PATH writer in one behaviour

\* Contents a profile file may start with (those of TestContainsProfileLine
\* among them).
CExact == ProfileLine \o <<NL>>
CWhitespace == <<" ", "\t">> \o ProfileLine \o <<" ", " ", NL>>
CAlternate == ExportPath \o <<"=", GoBin, ":", "$", "PATH", NL>>
CMultiple == <<"#", " ", "comment", NL, "SOME=VAR", NL>> \o ProfileLine \o <<NL>>
CNotPresent ==
    <<"#", " ", "nothing relevant", NL>>
        \o ExportPath \o <<"=", "$", "PATH", ":", "/usr/local/bin", NL>>
CNoNewline == <<"SOME=VAR">>
CSplit == <<"#", " ", GoBin, NL>> \o ExportPath

ProfileContents ==
    {<<>>, CExact, CWhitespace, CAlternate, CMultiple, CNotPresent, CNoNewline, CSplit}

FilesWith(contents) ==
    {Absent} \cup
    {[exists |-> TRUE, readable |-> r, writable |-> w, content |-> c] :
        r \in BOOLEAN, w \in BOOLEAN, c \in contents}

\* The file system as a value, to compare before and after.
FsNow == [home |-> home, sys |-> sys, dl |-> dl, inst |-> inst]

\* Some existing candidate holds the line, exactly or as an equivalent export.
HoldsLine(os, files) ==
    \E i \in 1..Len(Candidates(os)) :
        /\ files[Candidates(os)[i]].exists
        /\ containsProfileLine(files[Candidates(os)[i]].content, ProfileLine)

InitProfile ==
    /\ IdlePure /\ IdleRun /\ IdleHist
    /\ goos \in {"linux", "darwin"}
    /\ goarch = "amd64"
    /\ priv \in {"root", "sudo"}
    /\ homeOk \in BOOLEAN
    /\ home \in IF goos = "linux"
                THEN {[NoFiles EXCEPT ![".profile"] = f] : f \in FilesWith(ProfileContents)}
                ELSE [CandidateNames -> FilesWith({CNoNewline, CAlternate})]
    /\ sys = NoSys /\ dl = NoDl /\ inst = <<>> /\ pathGo = <<>>

\* must(ensureUserPath(), ...), once more on the same files
EnsureUserPathCall ==
    /\ Len(profHist) < MaxCalls
    /\ \E flushOk \in BOOLEAN :
          LET r == ensureUserPath(goos, home, priv, homeOk, flushOk)
          IN /\ home' = r.files
             /\ profHist' = Append(profHist,
                    [err |-> r.err, changed |-> r.files # home,
                     held |-> HoldsLine(goos, home)])
    /\ UNCHANGED <<pureVars, envVars, sys, dl, inst, pathGo, runVars, sysHist>>

NextProfile == EnsureUserPathCall

SpecProfile == InitProfile /\ [][NextProfile]_vars

\* C4: once an ensure call has succeeded, a later call on the same files
\* changes no file; and a call on files of which an existing candidate
\* already holds the line (exactly or as an equivalent export) changes no
\* file.
C4_EnsureIdempotent ==
    \A i \in 1..Len(profHist) :
        /\ (\E j \in 1..(i - 1) : ~profHist[j].err) => ~profHist[i].changed
        /\ profHist[i].held => ~profHist[i].changed

(***************************************************************************)
(* SpecSystem: repeated calls of ensureSystemPath on one machine.          *)
(***************************************************************************)
GlobalContents == {<<>>, <<"#", " ", "system profile", NL>>, <<"umask 022">>}

InitSystem ==
    /\ IdlePure /\ IdleHist
    /\ goos \in {"linux", "darwin"}
    /\ goarch = "amd64"
    /\ priv \in {"root", "sudo", "nosudo"}
    /\ homeOk = TRUE
    /\ home = NoFiles /\ dl = NoDl /\ inst = <<>> /\ pathGo = <<>>
    /\ \E d \in BOOLEAN, old \in BOOLEAN, g \in GlobalContents :
          sys = [dropInDir |-> d,
                 dropIn |-> IF d /\ old
                            THEN [exists |-> TRUE, content |-> StagedContent(goos)]
                            ELSE [exists |-> FALSE, content |-> <<>>],
                 global |-> g, staging |-> 0]
    /\ pc = "idle" /\ flags = NoFlags /\ version = <<>> /\ result = ""
    /\ net = <<>> /\ run = 0
    /\ fs0 = FsNow

\* ensureSystemPath(), once more on the same machine
EnsureSystemPathCall ==
    /\ Len(sysHist) < MaxCalls
    /\ \E createOk \in BOOLEAN, writeOk \in BOOLEAN,
          installOk \in BOOLEAN, appendOk \in BOOLEAN :
          LET r == ensureSystemPath(goos, sys, priv, createOk, writeOk, installOk, appendOk)
          IN /\ sys' = r.sys
             /\ sysHist' = Append(sysHist,
                    [err |-> r.err, created |-> r.created, left |-> r.left])
    /\ UNCHANGED <<pureVars, envVars, home, dl, inst, pathGo, runVars, profHist>>

NextSystem == EnsureSystemPathCall

SpecSystem == InitSystem /\ [][NextSystem]_vars

\* Number of lines of a content that name the installation's bin directory.
RECURSIVE CountEntries(_)
CountEntries(lines) ==
    IF lines = <<>> THEN 0
    ELSE (IF Contains(Head(lines), <<GoBin>>) THEN 1 ELSE 0) + CountEntries(Tail(lines))

PathEntries(content) == CountEntries(SplitLines(content))

\* C8: whenever ensureSystemPath returns after it created its staging
\* file, that file no longer exists.
C8_StagingRemoved ==
    \A i \in 1..Len(sysHist) : sysHist[i].created => ~sysHist[i].left

\* C9: after any number of ensureSystemPath calls the drop-in file and the
\* global profile each hold the PATH entry at most once, and the global
\* profile still begins with what it held before.
C9_SystemPathOnce ==
    /\ PathEntries(sys.dropIn.content) <= 1
    /\ PathEntries(sys.global) <= 1
    /\ HasPrefix(sys.global, fs0.sys.global)

(***************************************************************************)
(* Spec: main(), run after run on one machine.                             *)
(***************************************************************************)
MaxRuns == 2         \* most runs of the installer in one behaviour

Go1 == <<"g", "o", "1">>
Go2 == <<"g", "o", "2">>
Devel == <<"d", "e", "v", "e", "l">>    \* a build whose `go version` names no goX

\* --version: absent, a plain token, and pasted text that needs cleaning
VersionFlags == {<<>>, Go1, <<" ", "2", "!", " ", "x">>}

FlagSets ==
    [version : VersionFlags, dryRun : BOOLEAN, noPathUpdate : BOOLEAN,
     system : BOOLEAN, downloadDir : {"", "custom"}]

\* What the GET of the VERSION endpoint may bring.
Responses ==
    {[fail |-> TRUE, status |-> 0, body |-> <<>>],
     [fail |-> FALSE, status |-> 503, body |-> <<>>],
     [fail |-> FALSE, status |-> StatusOK, body |-> <<"<", "h", "t", "m", "l", ">">>],
     [fail |-> FALSE, status |-> StatusOK,
      body |-> Go2 \o <<NL, "t", "i", "m", "e", " ", "2", "0", "2", "5", NL>>]}

Platforms ==
    {<<"linux", "amd64">>, <<"darwin", "aarch64">>, <<"linux", "mips">>,
     <<"windows", "amd64">>}

\* What is at /usr/local/go and what other go is on PATH, to begin with.
Installations == {<<<<>>, <<>>>>, <<Go1, <<>>>>, <<<<>>, Go2>>, <<Devel, Go2>>}

\* dlDir (lines 53-56) and the key of tarPath in it
DlDir == IF flags.downloadDir = "" THEN "tmp" ELSE flags.downloadDir
TarKey == <<DlDir, version>>
DirExists(d, dir) == dir = "tmp" \/ d.custom

Exit(how) == pc' = "exit" /\ result' = how

Init ==
    /\ IdlePure /\ IdleHist
    /\ \E p \in Platforms : goos = p[1] /\ goarch = p[2]
    /\ priv \in {"sudo", "nosudo"}
    /\ homeOk = TRUE
    /\ home \in {NoFiles,
                 [NoFiles EXCEPT ![".profile"] =
                    [exists |-> TRUE, readable |-> TRUE, writable |-> TRUE,
                     content |-> CNotPresent]]}
    /\ sys \in {[NoSys EXCEPT !.dropInDir = d] : d \in BOOLEAN}
    /\ dl \in {[NoDl EXCEPT !.custom = c] : c \in BOOLEAN}
    /\ \E i \in Installations : inst = i[1] /\ pathGo = i[2]
    /\ pc = "version" /\ flags \in FlagSets /\ version = <<>> /\ result = ""
    /\ net = <<>> /\ run = 1
    /\ fs0 = FsNow

\* Mutant: the latest version is fetched whether or not --version was given.
MainDetermineVersionAlwaysFetch ==
    /\ pc = "version"
    /\ \E resp \in Responses :
          LET r == fetchLatestVersion(resp)
          IN /\ net' = Append(net, "metadata")
             /\ IF r.err
                THEN Exit("error: fetch latest version") /\ UNCHANGED version
                ELSE /\ version' = IF TrimSpace(flags.version) = <<>> THEN r.v
                                   ELSE cleanVersionInput(flags.version)
                     /\ pc' = "check" /\ UNCHANGED result
    /\ UNCHANGED <<pureVars, envVars, fsVars, flags, fs0, run, histVars>>

\* lines 28-37: determine the target version
MainDetermineVersion ==
    /\ pc = "version"
    /\ IF TrimSpace(flags.version) = <<>>
       THEN \E resp \in Responses :
               LET r == fetchLatestVersion(resp)
               IN /\ net' = Append(net, "metadata")
                  /\ IF r.err
                     THEN Exit("error: fetch latest version") /\ UNCHANGED version
                     ELSE version' = r.v /\ pc' = "check" /\ UNCHANGED result
       ELSE /\ version' = cleanVersionInput(flags.version)
            /\ pc' = "check"
            /\ UNCHANGED <<net, result>>
    /\ UNCHANGED <<pureVars, envVars, fsVars, flags, fs0, run, histVars>>

\* Mutant: the download directory is made before the installed version is
\* looked at.
MainUpToDateCheckMkdirFirst ==
    /\ pc = "check"
    /\ dl' = [dl EXCEPT !.custom = @ \/ DlDir = "custom"]
    /\ LET installed == getInstalledGoVersion(inst, pathGo)
       IN IF ~installed.err /\ installed.v = version
          THEN Exit("up to date")
          ELSE pc' = "target" /\ UNCHANGED result
    /\ UNCHANGED <<pureVars, envVars, home, sys, inst, pathGo, flags, version,
                   net, fs0, run, histVars>>

\* lines 39-43: the up-to-date check
MainUpToDateCheck ==
    /\ pc = "check"
    /\ LET installed == getInstalledGoVersion(inst, pathGo)
       IN IF ~installed.err /\ installed.v = version
          THEN Exit("up to date")
          ELSE pc' = "target" /\ UNCHANGED result
    /\ UNCHANGED <<pureVars, envVars, fsVars, flags, version, net, fs0, run, histVars>>

\* lines 45-47: resolve the platform
MainResolveTarget ==
    /\ pc = "target"
    /\ IF resolveTarget(goos, goarch).err
       THEN Exit("error: resolve target platform")
       ELSE pc' = "mkdir" /\ UNCHANGED result
    /\ UNCHANGED <<pureVars, envVars, fsVars, flags, version, net, fs0, run, histVars>>

\* lines 52-58: must(os.MkdirAll(dlDir, 0o755), ...)
MainMkdir ==
    /\ pc = "mkdir"
    /\ \E mkdirOk \in BOOLEAN :
          IF DirExists(dl, DlDir)
          THEN pc' = "plan" /\ UNCHANGED <<dl, result>>
          ELSE IF mkdirOk
          THEN dl' = [dl EXCEPT !.custom = TRUE] /\ pc' = "plan" /\ UNCHANGED result
          ELSE Exit("error: create download dir") /\ UNCHANGED dl
    /\ UNCHANGED <<pureVars, envVars, home, sys, inst, pathGo, flags, version,
                   net, fs0, run, histVars>>

\* lines 64-67: the dry run prints the plan and returns
MainDryRun ==
    /\ pc = "plan"
    /\ IF flags.dryRun THEN Exit("dry run") ELSE pc' = "download" /\ UNCHANGED result
    /\ UNCHANGED <<pureVars, envVars, fsVars, flags, version, net, fs0, run, histVars>>

\* lines 69-75: reuse the file at tarPath, or download to it
MainDownload ==
    /\ pc = "download"
    /\ IF ArchiveAt(dl, TarKey)
       THEN pc' = "remove" /\ UNCHANGED <<dl, net, result>>
       ELSE \E outcome \in DownloadOutcomes :
               LET r == downloadFile(dl, TarKey, outcome)
               IN /\ dl' = r.dl
                  /\ net' = IF outcome = "create failed" THEN net
                            ELSE Append(net, "archive")
                  /\ IF r.err
                     THEN Exit("error: download archive")
                     ELSE pc' = "remove" /\ UNCHANGED result
    /\ UNCHANGED <<pureVars, envVars, home, sys, inst, pathGo, flags, version,
                   fs0, run, histVars>>

\* lines 77-78: rm -rf /usr/local/go
MainRemove ==
    /\ pc = "remove"
    /\ \E cmdOk \in BOOLEAN :
          IF runAsRoot(priv, cmdOk)
          THEN inst' = <<>> /\ pc' = "extract" /\ UNCHANGED result
          ELSE Exit("error: remove previous /usr/local/go") /\ UNCHANGED inst
    /\ UNCHANGED <<pureVars, envVars, home, sys, dl, pathGo, flags, version,
                   net, fs0, run, histVars>>

\* lines 80-82: tar -C /usr/local -xzf tarPath; tar fails on a file that is
\* not the whole archive
MainExtract ==
    /\ pc = "extract"
    /\ \E cmdOk \in BOOLEAN :
          IF runAsRoot(priv, cmdOk /\ TarKey \in dl.complete)
          THEN inst' = version /\ pc' = "path" /\ UNCHANGED result
          ELSE Exit("error: extract archive to /usr/local") /\ UNCHANGED inst
    /\ UNCHANGED <<pureVars, envVars, home, sys, dl, pathGo, flags, version,
                   net, fs0, run, histVars>>

\* lines 84-94: the PATH updates; a failure of the system-wide one is a
\* warning only
MainPath ==
    /\ pc = "path"
    /\ IF flags.noPathUpdate
       THEN pc' = "verify" /\ UNCHANGED <<home, sys, result>>
       ELSE \E flushOk \in BOOLEAN :
               LET u == ensureUserPath(goos, home, priv, homeOk, flushOk)
               IN /\ home' = u.files
                  /\ IF u.err
                     THEN Exit("error: ensure user PATH") /\ UNCHANGED sys
                     ELSE /\ pc' = "verify" /\ UNCHANGED result
                          /\ IF flags.system
                             THEN \E createOk \in BOOLEAN, writeOk \in BOOLEAN,
                                     installOk \in BOOLEAN, appendOk \in BOOLEAN :
                                     sys' = ensureSystemPath(goos, sys, priv, createOk,
                                                writeOk, installOk, appendOk).sys
                             ELSE UNCHANGED sys
    /\ UNCHANGED <<pureVars, envVars, dl, inst, pathGo, flags, version,
                   net, fs0, run, histVars>>

\* lines 96-106: run /usr/local/go/bin/go version and compare
MainVerify ==
    /\ pc = "verify"
    /\ IF inst = <<>>
       THEN Exit("error: verify")
       ELSE IF Contains(GoVersionOutput(inst), version)
       THEN Exit("installed")
       ELSE Exit("installed, version differs")
    /\ UNCHANGED <<pureVars, envVars, fsVars, flags, version, net, fs0, run, histVars>>

\* the installer is started again, with any command line
MainStart ==
    /\ pc = "exit"
    /\ run < MaxRuns
    /\ run' = run + 1
    /\ flags' \in FlagSets
    /\ pc' = "version" /\ version' = <<>> /\ result' = "" /\ net' = <<>>
    /\ fs0' = FsNow
    /\ UNCHANGED <<pureVars, envVars, fsVars, histVars>>

Next ==
    \/ MainStart
    \/ MainDetermineVersion
    \/ MainUpToDateCheck
    \/ MainResolveTarget
    \/ MainMkdir
    \/ MainDryRun
    \/ MainDownload
    \/ MainRemove
    \/ MainExtract
    \/ MainPath
    \/ MainVerify

Spec == Init /\ [][Next]_vars

(***************************************************************************)
(* Claims about main(), checked under Spec.                                *)
(***************************************************************************)
ArchiveFetched == \E i \in 1..Len(net) : net[i] = "archive"

\* C1: a run with --dry-run leaves the file system (download directory,
\* archive, installation root, profile files, system configuration) as it
\* was when the run started.
C1_DryRunNoMutation == result = "dry run" => FsNow = fs0

\* What the probe of the installed version finds when the run starts.
Probe0 == getInstalledGoVersion(fs0.inst, pathGo)

\* C2: whenever the probed installed version equals the resolved target,
\* the run exits reporting "up to date", the file system is as it was when
\* the run started, and no archive was fetched.
C2_UpToDateNoMutation ==
    (pc \notin {"version", "check"} /\ ~Probe0.err /\ Probe0.v = version) =>
        /\ pc = "exit" /\ result = "up to date"
        /\ FsNow = fs0
        /\ ~ArchiveFetched

\* C2 witness: the latest version was resolved, go on PATH already has it,
\* and the run ended up to date although the download directory it was
\* given does not exist.
C2_Witness ==
    /\ result = "up to date"
    /\ flags.version = <<>> /\ version = Go2 /\ inst = Devel /\ pathGo = Go2
    /\ flags.downloadDir = "custom" /\ ~dl.custom /\ ~flags.dryRun

\* C3 (as stated): a run that ends with the unsupported-platform error has
\* made no network request, however the target version was determined.
C3_NoNetworkBeforeUnsupported ==
    result = "error: resolve target platform" => net = <<>>

\* C3 (amended): a run that ends with the unsupported-platform error has
\* fetched no archive; it has made no network request at all when the
\* version was given by flag, and exactly the one metadata request when the
\* version had to be resolved as latest.
C3_UnsupportedBeforeArchive ==
    result = "error: resolve target platform" =>
        /\ ~ArchiveFetched
        /\ net = IF Blank(flags.version) THEN <<"metadata">> ELSE <<>>

\* C3 witness: an unsupported architecture, the version given by flag.
C3_Witness ==
    /\ result = "error: resolve target platform"
    /\ goos = "linux" /\ goarch = "mips"
    /\ flags.version = Go1 /\ net = <<>>

\* C10: the previous installation is removed only when the file at the
\* archive destination path is a completely downloaded archive.
C10_RemoveOnlyWithArchive == pc = "extract" => TarKey \in dl.complete

====
